---- MODULE Spec2Model ----
(***************************************************************************)
(* Model of the D2R item database: the IndexedDB-backed record store        *)
(* (class D2Database), the version-gated seed refresh of                    *)
(* App.checkAndLoadData and the startup sequence App.init.                  *)
(*                                                                          *)
(* Strings are sequences of one-character strings, numbers are integers.    *)
(* A stored record is [id, type, name, description, tags, isCustom]; the    *)
(* object store keeps its records in ascending key (id) order.              *)
(***************************************************************************)
EXTENDS Integers, Sequences, FiniteSets

(***************************************************************************)
(* Bounds of the model.                                                     *)
(***************************************************************************)
\* longest items array of a dataset document
MaxBatch == 2
\* number of addItem calls in one behaviour
MaxAdds == 2
\* number of page loads after the first one
MaxReloads == 1
\* most records of a store the search box is tried on
MaxStored == 2
\* most searchItems calls waiting at a time while a refresh is applied
MaxSearches == 2

(***************************************************************************)
(* JavaScript values.                                                       *)
(***************************************************************************)
\* the value of a property that is not there
Undefined == "undefined"
\* what localStorage.getItem returns for a missing key (no string equals it:
\* a string is a sequence of single characters)
Null == <<"null">>

Digits == <<"0", "1", "2", "3", "4", "5", "6", "7", "8", "9">>

RECURSIVE NatToString(_)
NatToString(n) ==
    IF n < 10 THEN <<Digits[n + 1]>>
    ELSE NatToString(n \div 10) \o <<Digits[(n % 10) + 1]>>

\* Number.prototype.toString of an integer
NumberToString(n) == IF n < 0 THEN <<"-">> \o NatToString(0 - n) ELSE NatToString(n)

IsDigit(c) == \E i \in 1..10 : Digits[i] = c

DigitValue(c) == (CHOOSE i \in 1..10 : Digits[i] = c) - 1

RECURSIVE ParseDigits(_, _, _)
\* the value of the longest digit prefix of s from position i, acc so far
ParseDigits(s, i, acc) ==
    IF i > Len(s) \/ ~IsDigit(s[i]) THEN acc
    ELSE ParseDigits(s, i + 1, acc * 10 + DigitValue(s[i]))

\* parseInt: <<n>> for a string that starts with an optional sign and a
\* digit, << >> (NaN) for any other
ParseInt(s) ==
    LET neg == Len(s) > 0 /\ s[1] = "-"
        from == IF Len(s) > 0 /\ s[1] \in {"-", "+"} THEN 2 ELSE 1
    IN  IF from > Len(s) \/ ~IsDigit(s[from]) THEN << >>
        ELSE IF neg THEN <<0 - ParseDigits(s, from, 0)>>
        ELSE <<ParseDigits(s, from, 0)>>

\* a > b of a number a and a parseInt result b (false against NaN)
GreaterThan(a, b) == b # << >> /\ a > b[1]

\* !v for the values isCustom takes
Falsy(v) == v \in {Undefined, "false"}

(***************************************************************************)
(* Records (interface D2Item).  id = NoId stands for an object without an   *)
(* id property; isCustom is Undefined, "true" or "false".                   *)
(***************************************************************************)
NoId == 0

RUNE == <<"r", "u", "n", "e">>

QUEST == <<"q", "u", "e", "s", "t">>

ALL == <<"a", "l", "l">>

\* an object of data.json's items array, as the author of the file wrote it
SeedEntry(type, name, description, tags, id, isCustom) ==
    [id |-> id, type |-> type, name |-> name, description |-> description,
     tags |-> tags, isCustom |-> isCustom]

\* the versions db_version.json declares, and those data.json declares
DescriptorVersions == {-1, 0, 1, 2}

DatasetVersions == {1, 2}

\* the entries a dataset document is built from: a plain one, and one that
\* carries an id and an isCustom property of its own
DatasetEntries ==
    { SeedEntry(RUNE, <<"E", "l">>, <<"r", "1">>, << <<"R">> >>, NoId, Undefined),
      SeedEntry(QUEST, <<"D", "e", "n">>, <<"a", "c", "t">>, << >>, 1, "true") }

RECURSIVE SeqsUpTo(_, _)
\* the sequences over S of length at most n
SeqsUpTo(S, n) ==
    IF n = 0 THEN { << >> }
    ELSE LET shorter == SeqsUpTo(S, n - 1)
         IN  shorter \cup { Append(q, x) : q \in { r \in shorter : Len(r) = n - 1 }, x \in S }

\* the documents data.json can hold
SeedDataFiles ==
    [version : DatasetVersions, items : SeqsUpTo(DatasetEntries, MaxBatch)]

\* the fields of a record other than its key and its provenance
Content(r) ==
    [type |-> r.type, name |-> r.name, description |-> r.description, tags |-> r.tags]

(***************************************************************************)
(* The object store 'items': keyPath 'id', autoIncrement.  A store value    *)
(* is [items, keyGen]: the records in ascending key order and the key       *)
(* generator's current number.                                              *)
(***************************************************************************)
EmptyStore == [items |-> << >>, keyGen |-> 1]

HasKey(recs, k) == \E i \in 1..Len(recs) : recs[i].id = k

\* recs with r put at its place in key order
InsertByKey(recs, r) ==
    LET n == Cardinality({ i \in 1..Len(recs) : recs[i].id < r.id })
    IN  SubSeq(recs, 1, n) \o <<r>> \o SubSeq(recs, n + 1, Len(recs))

\* IDBObjectStore.add: [ok, store, key].  A value without an id takes the
\* generator's number; a value with an id keeps it, fails with a
\* ConstraintError when the key is taken, and pushes the generator past it.
StoreAdd(st, item) ==
    IF item.id = NoId
    THEN [ok |-> TRUE, key |-> st.keyGen,
          store |-> [items |-> InsertByKey(st.items, [item EXCEPT !.id = st.keyGen]),
                     keyGen |-> st.keyGen + 1]]
    ELSE IF HasKey(st.items, item.id)
    THEN [ok |-> FALSE, key |-> item.id, store |-> st]
    ELSE [ok |-> TRUE, key |-> item.id,
          store |-> [items |-> InsertByKey(st.items, item),
                     keyGen |-> IF item.id >= st.keyGen THEN item.id + 1 ELSE st.keyGen]]

\* IDBCursor.delete of the record with key k
StoreDelete(st, k) ==
    [st EXCEPT !.items = SelectSeq(st.items, LAMBDA r : r.id # k)]

(***************************************************************************)
(* D2Database.searchItems on the records getAll returns.                    *)
(***************************************************************************)
\* String.prototype.toLowerCase, for the letters the model's strings use
LowerOf(c) ==
    CASE c = "A" -> "a" [] c = "D" -> "d" [] c = "E" -> "e" [] c = "L" -> "l"
      [] c = "N" -> "n" [] c = "R" -> "r" [] c = "U" -> "u" [] OTHER -> c

ToLowerCase(s) == [i \in 1..Len(s) |-> LowerOf(s[i])]

\* String.prototype.includes
Includes(s, sub) ==
    \E i \in 0..(Len(s) - Len(sub)) : SubSeq(s, i + 1, i + Len(sub)) = sub

\* searchItems with the keyword looked for in the name alone
SearchItemsByName(recs, keyword, category) ==
    LET byType == IF category # ALL
                  THEN SelectSeq(recs, LAMBDA item : item.type = category)
                  ELSE recs
        lowerKey == ToLowerCase(keyword)
        Matches(item) == Includes(ToLowerCase(item.name), lowerKey)
    IN  IF keyword # << >> THEN SelectSeq(byType, Matches) ELSE byType

SearchItems(recs, keyword, category) ==
    LET byType == IF category # ALL
                  THEN SelectSeq(recs, LAMBDA item : item.type = category)
                  ELSE recs
        lowerKey == ToLowerCase(keyword)
        Matches(item) ==
            \/ Includes(ToLowerCase(item.name), lowerKey)
            \/ Includes(ToLowerCase(item.description), lowerKey)
            \/ \E t \in 1..Len(item.tags) : Includes(ToLowerCase(item.tags[t]), lowerKey)
    IN  IF keyword # << >> THEN SelectSeq(byType, Matches) ELSE byType

\* the white space String.prototype.trim strips, as far as the model's
\* strings hold any
IsWhiteSpace(c) == c \in {" ", "\t"}

RECURSIVE TrimStart(_)
TrimStart(s) == IF s # << >> /\ IsWhiteSpace(Head(s)) THEN TrimStart(Tail(s)) ELSE s

RECURSIVE TrimEnd(_)
TrimEnd(s) ==
    IF s # << >> /\ IsWhiteSpace(s[Len(s)]) THEN TrimEnd(SubSeq(s, 1, Len(s) - 1)) ELSE s

\* handleSearch without the trim
TrimNothing(s) == s

\* String.prototype.trim
Trim(s) == TrimEnd(TrimStart(s))

(***************************************************************************)
(* State.                                                                   *)
(***************************************************************************)
VARIABLES
    store,          \* the committed object store 'items' of D2R_DB_V2: [items, keyGen]
    localStorage,   \* the value kept under VERSION_KEY: Null or a string
    db,             \* D2Database.db: "null" or "open"
    pc,             \* where App.init / App.checkAndLoadData stands
    remoteVersion,  \* checkAndLoadData's remoteVersion: << >> before it is read, <<v>> after
    loading,        \* the loading overlay is visible
    txns,           \* the live readwrite transactions on 'items', oldest first
    work,           \* the store as the oldest (running) transaction sees it
    outcome,        \* how the reconciliation of this page load ended ("none": not yet)
    cycle,          \* what this page load's reconciliation did so far
    applied,        \* what the committed seed refreshes put into the store
    customLog,      \* the custom records whose insert has committed
    adds,           \* addItem calls made so far
    reloads,        \* page reloads so far
    searchInput,    \* the value of the input element 'searchInput'
    currentCategory, \* App.currentCategory
    results,        \* what the element 'results' shows, and the search it came from
    issued,         \* the highest key a committed add has given to a record (0: none)
    direct,         \* a page of the direct flow (app.ts) beside this one: [pc, store, localStorage]
    scenario        \* what the server and the engine answer to both pages: [doc, fetch, apply]

\* the page of the version-gated flow
gated ==
    <<store, localStorage, db, pc, remoteVersion, loading, txns, work,
      outcome, cycle, applied, customLog, adds, reloads,
      searchInput, currentCategory, results, issued>>

vars == <<gated, direct, scenario>>

\* no page of the direct flow is run beside this one
NoDirect == [pc |-> "none", store |-> EmptyStore, localStorage |-> Null]

NoScenario == [doc |-> [version |-> 0, items |-> << >>], fetch |-> "none", apply |-> "none"]

\* the record of a page load that has done nothing yet; prev is the remote
\* version the page load before it committed (<< >>: none, or it did not commit)
NewCycle(ls, prev) ==
    [lsAtStart |-> ls, shown |-> FALSE, hidden |-> FALSE, alerted |-> FALSE,
     sweepCalls |-> 0, connect |-> "pending", searches |-> 0, bound |-> FALSE,
     rejected |-> "none", prevCommitted |-> prev, calls |-> << >>,
     raced |-> { }]

\* the element 'results' of a page that has rendered no search yet
NoResults ==
    [input |-> << >>, keyword |-> << >>, category |-> ALL, items |-> << >>,
     behind |-> FALSE]

\* a page that has just been loaded: new App() has called init(), which
\* awaits connect()
PageLoaded(ls, st) ==
    /\ db' = "null"
    /\ pc' = "Connecting"
    /\ remoteVersion' = << >>
    /\ loading' = FALSE
    /\ txns' = << >>
    /\ work' = st
    /\ outcome' = "none"
    /\ cycle' = NewCycle(ls, IF outcome = "committed" THEN remoteVersion ELSE << >>)
    /\ searchInput' = << >>
    /\ currentCategory' = ALL
    /\ results' = NoResults

Init ==
    /\ store = EmptyStore
    /\ localStorage = Null
    /\ db = "null"
    /\ pc = "Connecting"
    /\ remoteVersion = << >>
    /\ loading = FALSE
    /\ txns = << >>
    /\ work = EmptyStore
    /\ outcome = "none"
    /\ cycle = NewCycle(Null, << >>)
    /\ applied = [seed |-> << >>, version |-> 0]
    /\ customLog = { }
    /\ adds = 0
    /\ reloads = 0
    /\ searchInput = << >>
    /\ currentCategory = ALL
    /\ results = NoResults
    /\ issued = 0
    /\ direct = NoDirect
    /\ scenario = NoScenario

(***************************************************************************)
(* App.init and App.checkAndLoadData (the version-gated flow).              *)
(***************************************************************************)
\* the gate reading no stored version
StoredVersionAlwaysZero(ls) == <<"0">>

\* localStorage.getItem(VERSION_KEY) || '0'
StoredVersionOrZero(ls) == IF ls = Null \/ ls = << >> THEN <<"0">> ELSE ls

\* the gate with >= for >: an equal remote version refreshes again
ShouldRefreshOrEqual(remote, ls) ==
    LET cur == ParseInt(StoredVersionOrZero(ls))
    IN  cur # << >> /\ remote >= cur[1]

\* the gate with !== for >: any other remote version refreshes
ShouldRefreshOnChange(remote, ls) ==
    LET cur == ParseInt(StoredVersionOrZero(ls))
    IN  cur # << >> /\ remote # cur[1]

\* the gate of checkAndLoadData: remoteVersion > currentVersion
ShouldRefresh(remote, ls) == GreaterThan(remote, ParseInt(StoredVersionOrZero(ls)))

\* a transaction on 'items': an "add" transaction (addItem) holds the one
\* item it adds, a "sweep" transaction (updateSeedData) the new items, the
\* key its cursor stands on and the version of the document they came from
Txn(kind, phase, batch, pos, version) ==
    [kind |-> kind, phase |-> phase, batch |-> batch, pos |-> pos, version |-> version]

\* the transaction of an updateSeedData call is among those of q
SweepIn(q) == \E i \in 1..Len(q) : q[i].kind = "sweep"

\* the readonly transaction of a searchItems call with its getAll request:
\* the input value handleSearch read, and the keyword and the category it
\* passed (behind notes a transaction created behind that of a live
\* updateSeedData call)
SearchTxn(input, keyword, category) ==
    [kind |-> "search", input |-> input, keyword |-> keyword, category |-> category,
     behind |-> FALSE]

\* App.handleSearch up to its await, on an open database, with the search
\* box holding input and currentCategory being category: the input value is
\* trimmed and searchItems opens its transaction behind those of q
SearchCall(q, input, category) ==
    Append(q, [SearchTxn(input, Trim(input), category) EXCEPT !.behind = SweepIn(q)])

\* handleSearch() as the page stands
HandleSearch(q) == SearchCall(q, searchInput, currentCategory)

\* checkAndLoadData has returned: init calls handleSearch and bindEvents
InitGoesOn(c) ==
    [c EXCEPT !.searches = @ + 1, !.bound = TRUE,
              !.calls = @ \o <<"handleSearch", "bindEvents">>]

\* indexedDB.open succeeds: this.db is set, init goes on to checkAndLoadData,
\* which requests db_version.json
ConnectSuccess ==
    /\ pc = "Connecting"
    /\ db' = "open"
    /\ pc' = "CheckingVersion"
    /\ cycle' = [cycle EXCEPT !.connect = "ok", !.rejected = "none"]
    /\ UNCHANGED <<direct, scenario, store, localStorage, remoteVersion, loading, txns, work,
                   outcome, applied, customLog, adds, reloads,
                   searchInput, currentCategory, results, issued>>

\* init with the rejection of connect caught before checkAndLoadData
ConnectErrorSwallowed ==
    /\ pc = "Connecting"
    /\ pc' = "CheckingVersion"
    /\ cycle' = [cycle EXCEPT !.connect = "failed"]
    /\ UNCHANGED <<direct, scenario, store, localStorage, db, remoteVersion, loading, txns, work,
                   outcome, applied, customLog, adds, reloads,
                   searchInput, currentCategory, results, issued>>

\* indexedDB.open fails: connect rejects and init's catch ends the startup
ConnectError ==
    /\ pc = "Connecting"
    /\ pc' = "InitFailed"
    /\ cycle' = [cycle EXCEPT !.connect = "failed"]
    /\ UNCHANGED <<direct, scenario, store, localStorage, db, remoteVersion, loading, txns, work,
                   outcome, applied, customLog, adds, reloads,
                   searchInput, currentCategory, results, issued>>

\* the outer catch with the alert of the inner one
VersionCheckFailAlerts ==
    /\ pc = "CheckingVersion"
    /\ pc' = "Running"
    /\ outcome' = "versionFailed"
    /\ cycle' = InitGoesOn([cycle EXCEPT !.alerted = TRUE])
    /\ txns' = HandleSearch(txns)
    /\ UNCHANGED <<direct, scenario, store, localStorage, db, remoteVersion, loading, work,
                   applied, customLog, adds, reloads,
                   searchInput, currentCategory, results, issued>>

\* the fetch of db_version.json rejects, answers not ok, or its body does not
\* parse: the outer catch logs it, init goes on to handleSearch and bindEvents
VersionCheckFail ==
    /\ pc = "CheckingVersion"
    /\ pc' = "Running"
    /\ outcome' = "versionFailed"
    /\ cycle' = InitGoesOn(cycle)
    /\ txns' = HandleSearch(txns)
    /\ UNCHANGED <<direct, scenario, store, localStorage, db, remoteVersion, loading, work,
                   applied, customLog, adds, reloads,
                   searchInput, currentCategory, results, issued>>

\* the else branch with the download of the other branch
UpToDateFetchesAnyway ==
    /\ loading' = loading
    /\ pc' = "Downloading"
    /\ outcome' = outcome
    /\ cycle' = cycle
    /\ txns' = txns

\* the else branch of the gate: the data is current, checkAndLoadData
\* returns and init goes on to handleSearch and bindEvents
UpToDate ==
    /\ loading' = loading
    /\ pc' = "Running"
    /\ outcome' = "upToDate"
    /\ cycle' = InitGoesOn(cycle)
    /\ txns' = HandleSearch(txns)

\* db_version.json declares version v: the gate either shows the overlay and
\* requests data.json, or logs that the data is current
VersionCheckOk(v) ==
    /\ pc = "CheckingVersion"
    /\ remoteVersion' = <<v>>
    /\ IF ShouldRefresh(v, localStorage)
       THEN /\ loading' = TRUE
            /\ pc' = "Downloading"
            /\ outcome' = outcome
            /\ cycle' = [cycle EXCEPT !.shown = TRUE, !.calls = Append(@, "showLoading")]
            /\ txns' = txns
       ELSE UpToDate
    /\ UNCHANGED <<direct, scenario, store, localStorage, db, work, applied, customLog, adds, reloads,
                   searchInput, currentCategory, results, issued>>

\* the failure path with the version stored in finally rather than after
\* the update
UpdateFailedStoresVersion(how) ==
    /\ localStorage' = NumberToString(remoteVersion[1])
    /\ loading' = FALSE
    /\ pc' = "Running"
    /\ outcome' = how
    /\ cycle' = InitGoesOn([cycle EXCEPT !.alerted = TRUE, !.hidden = TRUE])

\* the failure path without the finally block
UpdateFailedKeepsOverlay(how) ==
    /\ localStorage' = localStorage
    /\ loading' = loading
    /\ pc' = "Running"
    /\ outcome' = how
    /\ cycle' = InitGoesOn([cycle EXCEPT !.alerted = TRUE])

\* the inner catch and finally of checkAndLoadData: alert, hideLoading; then
\* init goes on to handleSearch and bindEvents
UpdateFailed(how) ==
    /\ localStorage' = localStorage
    /\ loading' = FALSE
    /\ pc' = "Running"
    /\ outcome' = how
    /\ cycle' = InitGoesOn([cycle EXCEPT !.alerted = TRUE, !.hidden = TRUE,
                                         !.calls = @ \o <<"alert", "hideLoading">>])

\* the fetch of data.json rejects or answers not ok
DownloadFail ==
    /\ pc = "Downloading"
    /\ UpdateFailed("downloadFailed")
    /\ txns' = HandleSearch(txns)
    /\ UNCHANGED <<direct, scenario, store, db, remoteVersion, work, applied, customLog, adds, reloads,
                   searchInput, currentCategory, results, issued>>

\* data.json answers ok: the overlay's message changes, the body is being parsed
DownloadOk ==
    /\ pc = "Downloading"
    /\ pc' = "Parsing"
    /\ loading' = TRUE
    /\ UNCHANGED <<direct, scenario, store, localStorage, db, remoteVersion, txns, work,
                   outcome, cycle, applied, customLog, adds, reloads,
                   searchInput, currentCategory, results, issued>>

\* the body of data.json is no JSON
ParseFail ==
    /\ pc = "Parsing"
    /\ UpdateFailed("downloadFailed")
    /\ txns' = HandleSearch(txns)
    /\ UNCHANGED <<direct, scenario, store, db, remoteVersion, work, applied, customLog, adds, reloads,
                   searchInput, currentCategory, results, issued>>

\* D2Database.updateSeedData(newItems) up to its return: a readwrite
\* transaction with an openCursor request
UpdateSeedDataCall(newItems, version) ==
    /\ db = "open"
    /\ txns' = Append(txns, Txn("sweep", "cursor", newItems, 0, version))

\* the body of data.json parses to data: updateSeedData(data.items) is called
ParseOk(data) ==
    /\ pc = "Parsing"
    /\ UpdateSeedDataCall(data.items, data.version)
    /\ pc' = "Applying"
    /\ cycle' = [cycle EXCEPT !.sweepCalls = @ + 1, !.calls = Append(@, "updateSeedData")]
    /\ UNCHANGED <<direct, scenario, store, localStorage, db, remoteVersion, loading, work,
                   outcome, applied, customLog, adds, reloads,
                   searchInput, currentCategory, results, issued>>

(***************************************************************************)
(* Transactions.  Readwrite transactions on one store run one at a time,    *)
(* in the order they were created: txns[1] is the running one, work is its  *)
(* view, and store changes only when it commits.                            *)
(***************************************************************************)
\* the next transaction starting from what the ended one started from: the
\* write transactions not serialized
FinishOnStaleView(st) ==
    /\ txns' = Tail(txns)
    /\ work' = work

\* the running transaction is over: the next one starts from st
Finish(st) ==
    /\ txns' = Tail(txns)
    /\ work' = st

\* the highest of floor and the keys of the records recs
HighestKey(recs, floor) ==
    LET keys == { recs[i].id : i \in 1..Len(recs) } \cup { floor }
    IN  CHOOSE k \in keys : \A j \in keys : j <= k

\* the records of recs the cursor has not passed yet
Ahead(recs, pos) == { i \in 1..Len(recs) : recs[i].id > pos }

\* the sweep without item.isCustom = false
SeedValueAsFetched(item) == item

\* item.isCustom = false: the value the sweep stores for an item
SeedValue(item) == [item EXCEPT !.isCustom = "false"]

\* newItems.forEach(item => { item.isCustom = false; store.add(item) }):
\* the values of the add requests, in order
SeedValues(newItems) == [i \in 1..Len(newItems) |-> SeedValue(newItems[i])]

RECURSIVE AddAll(_, _, _)
\* the add requests for values[i..] run in order on st: [ok, store]; the
\* first one that fails stops the run
AddAll(st, values, i) ==
    IF i > Len(values) THEN [ok |-> TRUE, store |-> st]
    ELSE LET r == StoreAdd(st, values[i])
         IN  IF r.ok THEN AddAll(r.store, values, i + 1)
             ELSE [ok |-> FALSE, store |-> st]

\* the sweep without its test: every record is deleted
SweepDeletesAny(item) == TRUE

\* the sweep with its test inverted away: no record is deleted
SweepDeletesNone(item) == FALSE

\* if (!item.isCustom): the sweep deletes the record under the cursor
SweepDeletes(item) == Falsy(item.isCustom)

\* updateSeedData with two transactions, one for the deletions and one,
\* created when the cursor is through, for the adds
CursorSuccessTwoTransactions ==
    /\ txns # << >>
    /\ txns[1].kind = "sweep"
    /\ txns[1].phase = "cursor"
    /\ LET ahead == Ahead(work.items, txns[1].pos)
       IN  IF ahead # { }
           THEN LET i == CHOOSE j \in ahead : \A k \in ahead : j <= k
                    item == work.items[i]
                IN  /\ work' = IF SweepDeletes(item) THEN StoreDelete(work, item.id)
                               ELSE work
                    /\ txns' = [txns EXCEPT ![1].pos = item.id]
                    /\ store' = store
           ELSE /\ work' = work
                /\ store' = work
                /\ txns' = Append(Tail(txns), [txns[1] EXCEPT !.phase = "adds",
                                                  !.batch = SeedValues(txns[1].batch)])
    /\ UNCHANGED <<direct, scenario, localStorage, db, pc, remoteVersion, loading,
                   outcome, cycle, applied, customLog, adds, reloads,
                   searchInput, currentCategory, results, issued>>

\* updateSeedData's request.onsuccess with a cursor: the record under the
\* cursor is deleted unless it is custom, the cursor moves on.  Without a
\* cursor: every new item is marked as seed and added.
CursorSuccess ==
    /\ txns # << >>
    /\ txns[1].kind = "sweep"
    /\ txns[1].phase = "cursor"
    /\ LET ahead == Ahead(work.items, txns[1].pos)
       IN  IF ahead # { }
           THEN LET i == CHOOSE j \in ahead : \A k \in ahead : j <= k
                    item == work.items[i]
                IN  /\ work' = IF SweepDeletes(item) THEN StoreDelete(work, item.id)
                               ELSE work
                    /\ txns' = [txns EXCEPT ![1].pos = item.id]
           ELSE /\ work' = work
                /\ txns' = [txns EXCEPT ![1].phase = "adds",
                                        ![1].batch = SeedValues(txns[1].batch)]
    /\ UNCHANGED <<direct, scenario, store, localStorage, db, pc, remoteVersion, loading,
                   outcome, cycle, applied, customLog, adds, reloads,
                   searchInput, currentCategory, results, issued>>

\* a request of the sweep fails (an add whose key is taken, or the engine
\* fails the cursor, a delete or an add): its error event reaches
\* transaction.onerror, which rejects; the transaction aborts
SweepRequestError ==
    /\ txns # << >>
    /\ txns[1].kind = "sweep"
    /\ txns' = HandleSearch(Tail(txns))
    /\ work' = store
    /\ UpdateFailed("applyFailed")
    /\ UNCHANGED <<direct, scenario, store, db, remoteVersion, applied, customLog, adds, reloads,
                   searchInput, currentCategory, results, issued>>

\* checkAndLoadData after its await of updateSeedData, in the order of the
\* source: the version is stored, handleSearch is called (and has called
\* searchItems when it returns), and the finally block hides the overlay
SuccessPath == <<"setItem", "handleSearch", "hideLoading">>

\* the add requests of the sweep all succeed (they have no handlers) and the
\* sweep commits: transaction.oncomplete resolves and checkAndLoadData
\* stores the version, calls handleSearch and, in finally, hideLoading; init
\* goes on to handleSearch and bindEvents
SweepComplete ==
    /\ txns # << >>
    /\ txns[1].kind = "sweep"
    /\ txns[1].phase = "adds"
    /\ AddAll(work, txns[1].batch, 1).ok
    /\ store' = AddAll(work, txns[1].batch, 1).store
    /\ txns' = HandleSearch(HandleSearch(Tail(txns)))
    /\ work' = store'
    /\ localStorage' = NumberToString(remoteVersion[1])
    /\ loading' = FALSE
    /\ pc' = "Running"
    /\ outcome' = "committed"
    /\ cycle' = InitGoesOn([cycle EXCEPT !.hidden = TRUE, !.searches = @ + 1,
                                         !.calls = @ \o SuccessPath])
    /\ issued' = HighestKey(SelectSeq(store'.items, LAMBDA r : r.isCustom = "false"), issued)
    /\ applied' = [seed |-> txns[1].batch,
                   version |-> IF txns[1].version > applied.version
                               THEN txns[1].version ELSE applied.version]
    /\ UNCHANGED <<direct, scenario, db, remoteVersion, customLog, adds, reloads,
                   searchInput, currentCategory, results>>

\* the add requests of the sweep all succeed but the sweep cannot be
\* committed (the engine fails to write it): the transaction aborts and only
\* its abort event fires, for which updateSeedData registers no handler
SweepCommitFail ==
    /\ txns # << >>
    /\ txns[1].kind = "sweep"
    /\ txns[1].phase = "adds"
    /\ AddAll(work, txns[1].batch, 1).ok
    /\ Finish(store)
    /\ UNCHANGED <<direct, scenario, store, localStorage, db, pc, remoteVersion, loading,
                   outcome, cycle, applied, customLog, adds, reloads,
                   searchInput, currentCategory, results, issued>>

(***************************************************************************)
(* D2Database.addItem and the page.                                         *)
(***************************************************************************)
\* the records addItem is called with: what App.addItem builds from the form
\* (tags [name, type], no id, no isCustom), and a record that carries an id
\* and a provenance of its own
CallerItems ==
    { SeedEntry(RUNE, <<"U", "r">>, <<"m", "y">>, << <<"U", "r">>, RUNE >>, NoId, Undefined),
      SeedEntry(QUEST, <<"N", "o", "t", "e">>, <<"a">>, << <<"N", "o", "t", "e">>, QUEST >>,
                1, "false") }

\* addItem without item.isCustom = true
CustomValueAsPassed(item) == item

\* item.isCustom = true: the value addItem stores
CustomValue(item) == [item EXCEPT !.isCustom = "true"]

\* addItem(item) on an open database: a readwrite transaction with one add
\* request for the item, marked custom (pos notes whether the transaction
\* was created behind that of a live updateSeedData call)
AddItemCall(item) ==
    /\ adds < MaxAdds
    /\ db = "open"
    /\ adds' = adds + 1
    /\ txns' = Append(txns, Txn("add", "request", <<CustomValue(item)>>,
                                IF SweepIn(txns) THEN 1 ELSE 0, 0))
    /\ UNCHANGED <<direct, scenario, store, localStorage, db, pc, remoteVersion, loading, work,
                   outcome, cycle, applied, customLog, reloads,
                   searchInput, currentCategory, results, issued>>

\* addItem(item) without the test of this.db
AddItemWithoutCheck(item) ==
    /\ adds < MaxAdds
    /\ db = "null"
    /\ adds' = adds + 1
    /\ txns' = Append(txns, Txn("add", "request", <<CustomValue(item)>>, 0, 0))
    /\ UNCHANGED <<direct, scenario, store, localStorage, db, pc, remoteVersion, loading, work,
                   outcome, cycle, applied, customLog, reloads,
                   searchInput, currentCategory, results, issued>>

\* addItem(item) before connect has set this.db: rejects "DB not initialized"
AddItemNotInitialized(item) ==
    /\ adds < MaxAdds
    /\ db = "null"
    /\ adds' = adds + 1
    /\ cycle' = [cycle EXCEPT !.rejected = "addItem"]
    /\ UNCHANGED <<direct, scenario, store, localStorage, db, pc, remoteVersion, loading, txns, work,
                   outcome, applied, customLog, reloads,
                   searchInput, currentCategory, results, issued>>

\* the add request of addItem fails (the key is taken, or the engine fails
\* it): request.onerror rejects, the transaction aborts
AddRequestError ==
    /\ txns # << >>
    /\ txns[1].kind = "add"
    /\ Finish(store)
    /\ UNCHANGED <<direct, scenario, store, localStorage, db, pc, remoteVersion, loading,
                   outcome, cycle, applied, customLog, adds, reloads,
                   searchInput, currentCategory, results, issued>>

\* the add request of addItem succeeds, request.onsuccess resolves with the
\* key, and the transaction commits
AddComplete ==
    /\ txns # << >>
    /\ txns[1].kind = "add"
    /\ LET r == StoreAdd(work, txns[1].batch[1])
       IN  /\ r.ok
           /\ store' = r.store
           /\ Finish(store')
           /\ customLog' = customLog \cup { [txns[1].batch[1] EXCEPT !.id = r.key] }
           /\ issued' = HighestKey(<<[id |-> r.key]>>, issued)
           /\ cycle' = IF txns[1].pos = 1 \/ SweepIn(Tail(txns))
                        THEN [cycle EXCEPT !.raced = @ \cup { [txns[1].batch[1] EXCEPT !.id = r.key] }]
                        ELSE cycle
    /\ UNCHANGED <<direct, scenario, localStorage, db, pc, remoteVersion, loading,
                   outcome, applied, adds, reloads,
                   searchInput, currentCategory, results>>

\* the add request of addItem succeeds and request.onsuccess resolves, but
\* the transaction cannot be committed: it aborts after addItem has resolved
AddCommitFail ==
    /\ txns # << >>
    /\ txns[1].kind = "add"
    /\ StoreAdd(work, txns[1].batch[1]).ok
    /\ Finish(store)
    /\ UNCHANGED <<direct, scenario, store, localStorage, db, pc, remoteVersion, loading,
                   outcome, cycle, applied, customLog, adds, reloads,
                   searchInput, currentCategory, results, issued>>

\* searchItems(keyword, category) before connect has set this.db: rejects
\* "DB not initialized"
SearchItemsNotInitialized ==
    /\ db = "null"
    /\ cycle' = [cycle EXCEPT !.rejected = "searchItems"]
    /\ UNCHANGED <<direct, scenario, store, localStorage, db, pc, remoteVersion, loading, txns, work,
                   outcome, applied, customLog, adds, reloads,
                   searchInput, currentCategory, results, issued>>

\* updateSeedData(newItems) before connect has set this.db: rejects
\* "DB not initialized"
UpdateSeedDataNotInitialized ==
    /\ db = "null"
    /\ cycle' = [cycle EXCEPT !.rejected = "updateSeedData"]
    /\ UNCHANGED <<direct, scenario, store, localStorage, db, pc, remoteVersion, loading, txns, work,
                   outcome, applied, customLog, adds, reloads,
                   searchInput, currentCategory, results, issued>>

\* the getAll request of searchItems succeeds: the records are filtered,
\* searchItems resolves and handleSearch renders the list
SearchSuccess ==
    /\ txns # << >>
    /\ txns[1].kind = "search"
    /\ results' = [input |-> txns[1].input, keyword |-> txns[1].keyword,
                   category |-> txns[1].category,
                   items |-> SearchItems(work.items, txns[1].keyword, txns[1].category),
                   behind |-> txns[1].behind]
    /\ Finish(store)
    /\ UNCHANGED <<direct, scenario, store, localStorage, db, pc, remoteVersion, loading,
                   outcome, cycle, applied, customLog, adds, reloads,
                   searchInput, currentCategory, issued>>

\* the getAll request of searchItems fails: searchItems rejects, handleSearch
\* renders nothing
SearchRequestError ==
    /\ txns # << >>
    /\ txns[1].kind = "search"
    /\ Finish(store)
    /\ UNCHANGED <<direct, scenario, store, localStorage, db, pc, remoteVersion, loading,
                   outcome, cycle, applied, customLog, adds, reloads,
                   searchInput, currentCategory, results, issued>>

\* the page is loaded again (no transaction is running): the database and
\* localStorage stay, a new App starts
Reload ==
    /\ reloads < MaxReloads
    /\ txns = << >>
    /\ reloads' = reloads + 1
    /\ PageLoaded(localStorage, store)
    /\ UNCHANGED <<direct, scenario, store, localStorage, applied, customLog, adds, issued>>

\* the steps of one page load's reconciliation
Reconcile ==
    \/ ConnectSuccess
    \/ ConnectError
    \/ VersionCheckFail
    \/ \E v \in DescriptorVersions : VersionCheckOk(v)
    \/ DownloadFail
    \/ DownloadOk
    \/ ParseFail
    \/ \E data \in SeedDataFiles : ParseOk(data)
    \/ CursorSuccess
    \/ SweepRequestError
    \/ SweepComplete
    \/ SweepCommitFail

\* the calls made from outside the startup sequence
UserNext ==
    \/ \E item \in CallerItems : AddItemCall(item)
    \/ \E item \in CallerItems : AddItemNotInitialized(item)
    \/ SearchItemsNotInitialized
    \/ UpdateSeedDataNotInitialized

\* how the transaction of an addItem call ends
AddTxnNext ==
    \/ AddRequestError
    \/ AddComplete
    \/ AddCommitFail

\* how the transaction of a searchItems call ends
SearchTxnNext ==
    \/ SearchSuccess
    \/ SearchRequestError

Next == Reconcile \/ UserNext \/ AddTxnNext \/ SearchTxnNext \/ Reload

Spec == Init /\ [][Next]_vars

(***************************************************************************)
(* The search box.  SearchSpec starts from a page whose startup has found   *)
(* its data current and has rendered its first list, over any store of a    *)
(* few records; the user then types and picks categories, waiting for each  *)
(* list before the next input.                                              *)
(***************************************************************************)
\* what the user types into the search box
SearchInputs ==
    { << >>, <<" ">>, <<"\t", " ">>, <<"e", "l">>, <<" ", "E", "L", " ">>,
      <<"R">>, <<"a">>, QUEST }

\* the categories the tab buttons pass to setCategory
Categories == { ALL, RUNE, QUEST }

\* the records earlier page loads have stored: seed records and custom ones
StoredValues ==
    { SeedValue(e) : e \in DatasetEntries } \cup { CustomValue(c) : c \in CallerItems }

\* the stores of at most MaxStored records that adds of such values build
SearchStores ==
    { AddAll(EmptyStore, q, 1).store :
        q \in { r \in SeqsUpTo(StoredValues, MaxStored) : AddAll(EmptyStore, r, 1).ok } }

SearchInit ==
    /\ store \in SearchStores
    /\ localStorage = <<"1">>
    /\ db = "open"
    /\ pc = "Running"
    /\ remoteVersion = <<1>>
    /\ loading = FALSE
    /\ txns = << >>
    /\ work = store
    /\ outcome = "upToDate"
    /\ cycle = [InitGoesOn(NewCycle(<<"1">>, << >>)) EXCEPT !.connect = "ok"]
    /\ applied = [seed |-> SelectSeq(store.items, LAMBDA r : r.isCustom = "false"),
                  version |-> 1]
    /\ customLog = { store.items[i] : i \in { j \in 1..Len(store.items) :
                                                store.items[j].isCustom = "true" } }
    /\ adds = 0
    /\ reloads = 1
    /\ searchInput = << >>
    /\ currentCategory = ALL
    /\ results = [NoResults EXCEPT !.items = store.items]
    /\ issued = HighestKey(store.items, 0)
    /\ direct = NoDirect
    /\ scenario = NoScenario

\* the user edits the search box: the input listener that bindEvents
\* registered calls handleSearch
InputEvent(value) ==
    /\ cycle.bound
    /\ db = "open"
    /\ txns = << >>
    /\ searchInput' = value
    /\ txns' = SearchCall(txns, value, currentCategory)
    /\ UNCHANGED <<direct, scenario, store, localStorage, db, pc, remoteVersion, loading, work,
                   outcome, cycle, applied, customLog, adds, reloads,
                   currentCategory, results, issued>>

\* setCategory(category) on an open database: currentCategory is set and
\* handleSearch is called
SetCategory(category) ==
    /\ db = "open"
    /\ currentCategory' = category
    /\ txns' = SearchCall(txns, searchInput, category)
    /\ UNCHANGED <<direct, scenario, store, localStorage, db, pc, remoteVersion, loading, work,
                   outcome, cycle, applied, customLog, adds, reloads,
                   searchInput, results, issued>>

SearchNext ==
    \/ \E value \in SearchInputs : InputEvent(value)
    \/ txns = << >> /\ \E category \in Categories : SetCategory(category)
    \/ SearchSuccess
    \/ SearchRequestError

SearchSpec == SearchInit /\ [][SearchNext]_vars

(***************************************************************************)
(* Searches during a refresh.  RaceSpec starts from a page of a later load  *)
(* that has found a newer version, downloaded data.json and is parsing it,  *)
(* over any store of a few records; while updateSeedData runs, and after    *)
(* it, setCategory is called on the exported app object.                    *)
(***************************************************************************)
RaceInit ==
    /\ store \in SearchStores
    /\ localStorage = <<"1">>
    /\ db = "open"
    /\ pc = "Parsing"
    /\ remoteVersion = <<2>>
    /\ loading = TRUE
    /\ txns = << >>
    /\ work = store
    /\ outcome = "none"
    /\ cycle = [NewCycle(<<"1">>, << >>) EXCEPT !.connect = "ok", !.shown = TRUE,
                                                 !.calls = <<"showLoading">>]
    /\ applied = [seed |-> SelectSeq(store.items, LAMBDA r : r.isCustom = "false"),
                  version |-> 1]
    /\ customLog = { store.items[i] : i \in { j \in 1..Len(store.items) :
                                                store.items[j].isCustom = "true" } }
    /\ adds = 0
    /\ reloads = 1
    /\ searchInput = << >>
    /\ currentCategory = ALL
    /\ results = NoResults
    /\ issued = HighestKey(store.items, 0)
    /\ direct = NoDirect
    /\ scenario = NoScenario

\* the searchItems calls whose transactions are waiting or running
Searching == { i \in 1..Len(txns) : txns[i].kind = "search" }

RaceNext ==
    \/ \E data \in SeedDataFiles : ParseOk(data)
    \/ ParseFail
    \/ CursorSuccess
    \/ SweepRequestError
    \/ SweepComplete
    \/ SweepCommitFail
    \/ Cardinality(Searching) < MaxSearches /\ \E category \in Categories : SetCategory(category)
    \/ SearchSuccess
    \/ SearchRequestError

RaceSpec == RaceInit /\ [][RaceNext]_vars

(***************************************************************************)
(* The two refresh flows.  app.ts holds the direct flow: checkAndLoadData   *)
(* fetches data.json and compares its version.  FlowSpec runs one page of   *)
(* each flow, each over its own copy of the same store and stored version   *)
(* (D2Database is the same code in both), against the same server, whose    *)
(* db_version.json declares the version of data.json, and the same engine   *)
(* outcome of the refresh.                                                  *)
(***************************************************************************)
\* the documents data.json can hold, of any version db_version.json declares
FlowDocs == [version : DescriptorVersions, items : SeqsUpTo(DatasetEntries, MaxBatch)]

\* what the server answers to the fetch of data.json, and how the engine
\* ends the transaction of updateSeedData
Scenarios ==
    [doc : FlowDocs, fetch : {"ok", "fail", "badJson"},
     apply : {"commit", "requestError", "commitFail"}]

\* the direct gate as the comment above it words it: the file's version is
\* higher, or the local version is 0
DirectShouldRefreshOrFirstRun(version, ls) ==
    \/ GreaterThan(version, ParseInt(StoredVersionOrZero(ls)))
    \/ ParseInt(StoredVersionOrZero(ls)) = <<0>>

\* the gate of the direct flow: data.version > currentVersion
DirectShouldRefresh(version, ls) ==
    GreaterThan(version, ParseInt(StoredVersionOrZero(ls)))

\* updateSeedData's cursor through all of st: every record that is not
\* custom is deleted
DirectSwept(st) == [st EXCEPT !.items = SelectSeq(@, LAMBDA r : ~SweepDeletes(r))]

\* updateSeedData(newItems) on st, as one transaction: [ok, store]
DirectApply(st, newItems) == AddAll(DirectSwept(st), SeedValues(newItems), 1)

\* the fetch of data.json rejects or answers not ok: the catch logs it
DirectFetchFail ==
    /\ direct.pc = "Fetching"
    /\ scenario.fetch = "fail"
    /\ direct' = [direct EXCEPT !.pc = "Running"]
    /\ UNCHANGED <<gated, scenario>>

\* data.json answers ok: the body is being parsed
DirectFetchOk ==
    /\ direct.pc = "Fetching"
    /\ scenario.fetch # "fail"
    /\ direct' = [direct EXCEPT !.pc = "Parsing"]
    /\ UNCHANGED <<gated, scenario>>

\* the body of data.json is no JSON: the catch logs it
DirectParseFail ==
    /\ direct.pc = "Parsing"
    /\ scenario.fetch = "badJson"
    /\ direct' = [direct EXCEPT !.pc = "Running"]
    /\ UNCHANGED <<gated, scenario>>

\* the body parses: the gate either calls updateSeedData(data.items) or
\* lets checkAndLoadData return
DirectParseOk ==
    /\ direct.pc = "Parsing"
    /\ scenario.fetch = "ok"
    /\ direct' = [direct EXCEPT !.pc =
                      IF DirectShouldRefresh(scenario.doc.version, direct.localStorage)
                      THEN "Applying" ELSE "Running"]
    /\ UNCHANGED <<gated, scenario>>

\* the transaction of updateSeedData commits: the version of the document
\* is stored
DirectSweepComplete ==
    /\ direct.pc = "Applying"
    /\ scenario.apply = "commit"
    /\ DirectApply(direct.store, scenario.doc.items).ok
    /\ direct' = [pc |-> "Running",
                  store |-> DirectApply(direct.store, scenario.doc.items).store,
                  localStorage |-> NumberToString(scenario.doc.version)]
    /\ UNCHANGED <<gated, scenario>>

\* a request of the sweep fails: updateSeedData rejects, the catch logs it
DirectSweepRequestError ==
    /\ direct.pc = "Applying"
    /\ \/ scenario.apply = "requestError"
       \/ ~DirectApply(direct.store, scenario.doc.items).ok
    /\ direct' = [direct EXCEPT !.pc = "Running"]
    /\ UNCHANGED <<gated, scenario>>

\* the transaction cannot be committed: updateSeedData never settles
DirectSweepCommitFail ==
    /\ direct.pc = "Applying"
    /\ scenario.apply = "commitFail"
    /\ DirectApply(direct.store, scenario.doc.items).ok
    /\ direct' = [direct EXCEPT !.pc = "Hung"]
    /\ UNCHANGED <<gated, scenario>>

FlowInit ==
    /\ store \in SearchStores
    /\ localStorage \in {Null, <<"1">>, <<"2">>}
    /\ db = "open"
    /\ pc = "CheckingVersion"
    /\ remoteVersion = << >>
    /\ loading = FALSE
    /\ txns = << >>
    /\ work = store
    /\ outcome = "none"
    /\ cycle = [NewCycle(localStorage, << >>) EXCEPT !.connect = "ok"]
    /\ applied = [seed |-> SelectSeq(store.items, LAMBDA r : r.isCustom = "false"),
                  version |-> IF localStorage = Null THEN 0 ELSE ParseInt(localStorage)[1]]
    /\ customLog = { store.items[i] : i \in { j \in 1..Len(store.items) :
                                                store.items[j].isCustom = "true" } }
    /\ adds = 0
    /\ reloads = 0
    /\ searchInput = << >>
    /\ currentCategory = ALL
    /\ results = NoResults
    /\ issued = HighestKey(store.items, 0)
    /\ scenario \in Scenarios
    /\ direct = [pc |-> "Fetching", store |-> store, localStorage |-> localStorage]

\* the new items of the running sweep cannot all be added
AddsCollide ==
    /\ txns # << >>
    /\ txns[1].kind = "sweep"
    /\ txns[1].phase = "adds"
    /\ ~AddAll(work, txns[1].batch, 1).ok

\* the steps of the page of the direct flow
DirectNext ==
    \/ DirectFetchFail
    \/ DirectFetchOk
    \/ DirectParseFail
    \/ DirectParseOk
    \/ DirectSweepComplete
    \/ DirectSweepRequestError
    \/ DirectSweepCommitFail

\* the steps of the page of the version-gated flow under the scenario
GatedNext ==
    \/ scenario.fetch = "fail" /\ VersionCheckFail
    \/ VersionCheckOk(scenario.doc.version)
    \/ scenario.fetch = "fail" /\ DownloadFail
    \/ scenario.fetch # "fail" /\ DownloadOk
    \/ scenario.fetch = "badJson" /\ ParseFail
    \/ scenario.fetch = "ok" /\ ParseOk(scenario.doc)
    \/ CursorSuccess
    \/ (scenario.apply = "requestError" \/ AddsCollide) /\ SweepRequestError
    \/ scenario.apply = "commit" /\ SweepComplete
    \/ scenario.apply = "commitFail" /\ SweepCommitFail
    \/ SearchSuccess
    \/ SearchRequestError

FlowNext == DirectNext \/ GatedNext

FlowSpec == FlowInit /\ [][FlowNext]_vars

(***************************************************************************)
(* Properties.                                                              *)
(***************************************************************************)
IsCustom(r) == r.isCustom = "true"

IsSeed(r) == r.isCustom = "false"

\* the records of recs that satisfy Test, as a set
RecordsWhere(recs, Test(_)) == { recs[i] : i \in { j \in 1..Len(recs) : Test(recs[j]) } }

\* how often content c occurs among the records of the sequence recs
Occurrences(recs, c) == Cardinality({ i \in 1..Len(recs) : Content(recs[i]) = c })

\* the records of the sequences a and b have the same contents, each as often
SameContents(a, b) ==
    /\ Len(a) = Len(b)
    /\ \A i \in 1..Len(a) : Occurrences(a, Content(a[i])) = Occurrences(b, Content(a[i]))

\* the seed records of the committed store, in key order
StoredSeeds(st) == SelectSeq(st.items, IsSeed)

\* the watermark: the stored version as the program reads it, 0 when never set
Watermark(ls) == IF ls = Null THEN 0 ELSE ParseInt(ls)[1]

\* C1: a completed updateSeedData removes no custom record: every custom
\* record of the store before the sweep commits is in the store after it,
\* with the same id and the same fields.
C1_SweepKeepsCustomRecords ==
    [][SweepComplete =>
         \A r \in RecordsWhere(store.items, IsCustom) :
             r \in RecordsWhere(store'.items, IsCustom)]_vars

\* a sweep has committed over a store that held a custom record: the custom
\* record's generated key is older than the generated key of a seed record
C1_Witness ==
    /\ outcome = "committed"
    /\ \E c \in RecordsWhere(store.items, IsCustom) :
         \E r \in RecordsWhere(store.items, IsSeed) :
             c.type = RUNE /\ r.type = RUNE /\ r.id > c.id

\* C2: when updateSeedData(batch) completes, the seed records of the store
\* are exactly the entries of batch by content (same count, same fields),
\* each tagged seed, and every other record is custom.
C2_SeedsEqualBatch ==
    [][SweepComplete =>
         /\ SameContents(StoredSeeds(store'), txns[1].batch)
         /\ \A i \in 1..Len(store'.items) :
              IsSeed(store'.items[i]) \/ store'.items[i] \in customLog]_vars

\* a sweep has committed a batch of two entries, one of which carried
\* isCustom = true, over a store whose earlier seed records it deleted (no
\* addItem call was made, and keys were used up by records now gone)
C2_Witness ==
    /\ outcome = "committed"
    /\ reloads = 1
    /\ adds = 0
    /\ Len(applied.seed) = 2
    /\ \E i \in 1..2 : applied.seed[i].type = QUEST
    /\ store.keyGen > Len(store.items) + 1

\* a sweep has committed the empty batch over a store that held seed records
C2_WitnessEmptyBatch ==
    /\ outcome = "committed"
    /\ adds = 0
    /\ applied.seed = << >>
    /\ store.keyGen > 1

\* C3: the committed store, which is what a read observes, holds exactly
\* the custom records inserted so far and seed records with the contents of
\* the most recently applied batch (none before the first refresh).
C3_StoreIsCustomPlusLatestSeed ==
    /\ RecordsWhere(store.items, IsCustom) = customLog
    /\ \A i \in 1..Len(store.items) : IsCustom(store.items[i]) \/ IsSeed(store.items[i])
    /\ SameContents(StoredSeeds(store), applied.seed)

\* the second refresh has committed a non-empty batch into a store with a
\* custom record
C3_Witness ==
    /\ outcome = "committed"
    /\ reloads = 1
    /\ store.keyGen > Len(store.items) + 1
    /\ customLog # { }
    /\ applied.seed # << >>

RefreshStarted ==
    \/ cycle.shown
    \/ cycle.sweepCalls > 0
    \/ pc \in {"Downloading", "Parsing", "Applying"}
    \/ outcome \in {"downloadFailed", "applyFailed", "committed"}

\* C5: once the version descriptor is read, the cycle has started a refresh
\* if and only if the remote version is strictly greater than the watermark
\* the cycle started with (0 when never set); before it is read, no refresh
\* has started.
C5_RefreshIffRemoteNewer ==
    IF remoteVersion = << >>
    THEN ~RefreshStarted
    ELSE RefreshStarted <=> remoteVersion[1] > Watermark(cycle.lsAtStart)

\* a cycle has declined a remote version equal to the watermark it had
\* stored in an earlier cycle
C5_Witness ==
    /\ outcome = "upToDate"
    /\ localStorage # Null
    /\ remoteVersion = <<Watermark(localStorage)>>

\* a cycle has started a refresh for a version above a stored watermark
C5_WitnessRefresh ==
    /\ cycle.lsAtStart # Null
    /\ pc = "Applying"
    /\ remoteVersion[1] > Watermark(cycle.lsAtStart)

\* C6: the stored version differs from the one the cycle started with only
\* after the cycle's sweep has committed, and then it is the remote version;
\* after a failed download or apply the gate still holds for the same remote
\* version, so the next cycle tries again.
C6_WatermarkOnlyAfterCommit ==
    /\ outcome # "committed" => localStorage = cycle.lsAtStart
    /\ outcome = "committed" =>
         /\ localStorage = NumberToString(remoteVersion[1])
         /\ cycle.sweepCalls = 1
         /\ SameContents(StoredSeeds(store), applied.seed)
    /\ outcome \in {"downloadFailed", "applyFailed"} =>
         ShouldRefresh(remoteVersion[1], localStorage)

\* the sweep of a cycle that started with a stored watermark has failed
C6_Witness ==
    /\ outcome = "applyFailed"
    /\ cycle.lsAtStart # Null
    /\ cycle.sweepCalls = 1

\* C7: the stored version is absent or the decimal form of a non-negative
\* integer, and no step lowers the watermark.
C7_WatermarkMonotonic ==
    /\ [](/\ Watermark(localStorage) >= 0
          /\ localStorage # Null => localStorage = NumberToString(Watermark(localStorage)))
    /\ [][Watermark(localStorage') >= Watermark(localStorage)]_vars

\* a second refresh has raised a stored watermark
C7_Witness ==
    /\ outcome = "committed"
    /\ cycle.lsAtStart # Null
    /\ Watermark(localStorage) > Watermark(cycle.lsAtStart)

\* C8: the watermark equals the highest version declared by a dataset
\* document whose items were applied (0 when none was).
C8_WatermarkIsAppliedDatasetVersion ==
    Watermark(localStorage) = applied.version

\* C9: whenever the overlay is visible, a step of the reconciliation or of
\* a transaction ahead of its sweep is possible: the cycle cannot stop with
\* the overlay shown.
C9_OverlayNeverStuck ==
    loading => ENABLED (Reconcile \/ AddTxnNext)

\* updateSeedData has not been called by this page load's reconciliation
BeforeSweepCall == cycle.sweepCalls = 0

\* C10: a cycle whose dataset download failed ends with the overlay shown
\* and hidden again, the stored version as at its start and no call of
\* updateSeedData; its failing step, and every step before the sweep is
\* called, leaves the seed records of the store as they were.
C10_DownloadFailureLeavesState ==
    /\ [](outcome = "downloadFailed" =>
            /\ cycle.shown /\ cycle.hidden /\ ~loading
            /\ localStorage = cycle.lsAtStart
            /\ cycle.sweepCalls = 0)
    /\ [][BeforeSweepCall => (StoredSeeds(store') = StoredSeeds(store))]_vars

\* the download of a second refresh has failed over a store that holds the
\* seed records of the first
C10_Witness ==
    /\ outcome = "downloadFailed"
    /\ cycle.lsAtStart # Null
    /\ StoredSeeds(store) # << >>

\* no transaction of updateSeedData is live
NoSweep == \A i \in 1..Len(txns) : txns[i].kind # "sweep"

\* C11: a cycle whose version check failed has shown no overlay, alerted
\* nobody, called no sweep and left the stored version as it was; the
\* failing step changes neither the store nor the overlay, and the store's
\* seed records stay as they are for the rest of the page load.
C11_VersionCheckFailureIsSilent ==
    /\ [](outcome = "versionFailed" =>
            /\ ~cycle.shown /\ ~cycle.hidden /\ ~loading
            /\ ~cycle.alerted
            /\ cycle.sweepCalls = 0 /\ NoSweep
            /\ localStorage = cycle.lsAtStart)
    /\ [][VersionCheckFail => (store' = store /\ work' = work /\ loading' = loading)]_vars
    /\ [][outcome = "versionFailed" => (StoredSeeds(store') = StoredSeeds(store))]_vars

\* the version check of a second page load has failed over a store that
\* holds the seed records and the stored version of the first
C11_Witness ==
    /\ outcome = "versionFailed"
    /\ cycle.lsAtStart # Null
    /\ StoredSeeds(store) # << >>

\* C12: when the remote version is not above the watermark, the step that
\* reads it ends the reconciliation as up to date, without a request for
\* data.json, and changes neither the store nor the stored version nor the
\* overlay; a cycle that ended up to date has shown no overlay, alerted
\* nobody and called no sweep.
C12_UpToDateLeavesState ==
    /\ [][\A v \in DescriptorVersions :
            (VersionCheckOk(v) /\ v <= Watermark(localStorage)) =>
               /\ pc' = "Running" /\ outcome' = "upToDate"
               /\ store' = store /\ work' = work
               /\ localStorage' = localStorage /\ loading' = loading]_vars
    /\ [](outcome = "upToDate" =>
            /\ ~cycle.shown /\ ~cycle.hidden /\ ~loading /\ ~cycle.alerted
            /\ cycle.sweepCalls = 0 /\ NoSweep
            /\ localStorage = cycle.lsAtStart
            /\ remoteVersion[1] <= Watermark(localStorage))
    /\ [][outcome = "upToDate" => (StoredSeeds(store') = StoredSeeds(store))]_vars

\* a cycle has found a remote version below the stored one, over a store
\* with seed records
C12_Witness ==
    /\ outcome = "upToDate"
    /\ StoredSeeds(store) # << >>
    /\ localStorage # Null
    /\ remoteVersion[1] < Watermark(localStorage)

\* the sweep this cycle called is over and checkAndLoadData still awaits it
SweepLost == pc = "Applying" /\ NoSweep

\* C13: a cycle whose download or whose sweep has failed has alerted the
\* user, and a cycle that failed at the version check, found its data
\* current or committed has not.
C13_FailuresAlertOthersDoNot ==
    /\ outcome \in {"downloadFailed", "applyFailed"} => cycle.alerted
    /\ SweepLost => cycle.alerted
    /\ outcome \in {"versionFailed", "upToDate", "committed"} => ~cycle.alerted

\* C14: a sweep commits only for a remote version above the watermark the
\* cycle started with, and stores that version; a cycle that reads the
\* version the page load before it committed starts no refresh, ends up to
\* date with the stored version unchanged, and the seed records of the
\* store stay as they are.
C14_SameVersionRefreshesOnce ==
    /\ [][SweepComplete =>
            /\ remoteVersion[1] > Watermark(cycle.lsAtStart)
            /\ Watermark(localStorage') = remoteVersion[1]]_vars
    /\ [](cycle.prevCommitted # << >> /\ remoteVersion = cycle.prevCommitted =>
            /\ ~RefreshStarted /\ NoSweep
            /\ outcome = "upToDate"
            /\ localStorage = cycle.lsAtStart)
    /\ [][(cycle.prevCommitted # << >> /\ remoteVersion = cycle.prevCommitted) =>
            (StoredSeeds(store') = StoredSeeds(store))]_vars

\* the page load after one that committed version 2 has read version 2
\* again, over the seed records of the first
C14_Witness ==
    /\ cycle.prevCommitted = <<2>>
    /\ remoteVersion = <<2>>
    /\ cycle.searches = 1
    /\ StoredSeeds(store) # << >>

\* item is a record that a search for keyword in category asks for
Wanted(item, keyword, category) ==
    /\ category = ALL \/ item.type = category
    /\ \/ keyword = << >>
       \/ Includes(ToLowerCase(item.name), ToLowerCase(keyword))
       \/ Includes(ToLowerCase(item.description), ToLowerCase(keyword))
       \/ \E t \in 1..Len(item.tags) : Includes(ToLowerCase(item.tags[t]), ToLowerCase(keyword))

\* the records of recs a search for keyword in category asks for, in the
\* order of recs
WantedOf(recs, keyword, category) ==
    SelectSeq(recs, LAMBDA item : Wanted(item, keyword, category))

\* C15: the list a completed searchItems(keyword, category) hands over is
\* the store's records in key order that are of the category (any, for
\* "all") and, for a non-empty keyword, hold the lowercased keyword in the
\* lowercased name, description or a tag; for ("", "all") it is every
\* record, and for "quest" it holds quest records only.
C15_SearchReturnsExactlyTheMatches ==
    [][SearchSuccess =>
         /\ results'.items = WantedOf(store.items, txns[1].keyword, txns[1].category)
         /\ (txns[1].keyword = << >> /\ txns[1].category = ALL) => results'.items = store.items
         /\ txns[1].category = QUEST =>
              \A i \in 1..Len(results'.items) : results'.items[i].type = QUEST]_vars

\* a search for "EL" in all categories has returned the one record of two
\* whose name is "El"
C15_Witness ==
    /\ results.keyword = <<"E", "L">>
    /\ results.category = ALL
    /\ Len(store.items) = 2
    /\ Len(results.items) = 1
    /\ results.items[1].name = <<"E", "l">>

\* a search in "quest" has left out a rune record its keyword matches
C15_WitnessCategory ==
    /\ results.keyword = <<"R">>
    /\ results.category = QUEST
    /\ results.items = << >>
    /\ \E i \in 1..Len(store.items) : Wanted(store.items[i], <<"R">>, ALL)

\* s holds nothing but white space
Blank(s) == \A i \in 1..Len(s) : IsWhiteSpace(s[i])

\* C16: a search made with nothing but white space in the search box
\* renders what a search with the empty keyword returns: every record of
\* the category, unfiltered by text.
C16_BlankKeywordIsNoFilter ==
    [][(SearchSuccess /\ Blank(txns[1].input)) =>
         /\ results'.items = SearchItems(store.items, << >>, txns[1].category)
         /\ results'.items = WantedOf(store.items, << >>, txns[1].category)]_vars

\* a search with a tab and a space in the search box has rendered the rune
\* records of a store
C16_Witness ==
    /\ results.input = <<"\t", " ">>
    /\ results.category = RUNE
    /\ results.items # << >>
    /\ Len(results.items) < Len(store.items)

\* a call of addItem, searchItems or updateSeedData on a D2Database whose
\* db is not set
NotInitializedCall ==
    \/ \E item \in CallerItems : AddItemNotInitialized(item)
    \/ SearchItemsNotInitialized
    \/ UpdateSeedDataNotInitialized

\* C17: while connect has not succeeded (it is pending, or it failed),
\* addItem, searchItems and updateSeedData are rejected as not initialized:
\* the call opens no transaction and changes neither the store nor the
\* stored version nor the rendered list, and no transaction is live.
C17_CallsBeforeConnectAreRejected ==
    /\ [][NotInitializedCall =>
            /\ cycle'.rejected \in {"addItem", "searchItems", "updateSeedData"}
            /\ store' = store /\ work' = work /\ txns' = txns
            /\ localStorage' = localStorage /\ results' = results]_vars
    /\ [](db = "null" => txns = << >> /\ work = store)
    /\ [](cycle.rejected # "none" => cycle.connect \in {"pending", "failed"})

\* on a page whose connect failed, over a store and a stored version that
\* an earlier page load left, updateSeedData has been rejected
C17_Witness ==
    /\ cycle.rejected = "updateSeedData"
    /\ cycle.connect = "failed"
    /\ store.items # << >>
    /\ localStorage # Null

\* addItem has been rejected while connect was pending
C17_WitnessPending ==
    /\ cycle.rejected = "addItem"
    /\ cycle.connect = "pending"
    /\ store.items # << >>

\* searchItems has been rejected
C17_WitnessSearch ==
    /\ cycle.rejected = "searchItems"
    /\ store.items # << >>

\* C18: once connect has failed, startup is over: db_version.json is not
\* requested, the overlay is not shown, the stored version is not written,
\* handleSearch is not called and no input listener is bound; the failing
\* step changes nothing of the store, the stored version or the page.
C18_ConnectFailureEndsStartup ==
    /\ [](cycle.connect = "failed" =>
            /\ pc = "InitFailed" /\ db = "null"
            /\ remoteVersion = << >> /\ outcome = "none"
            /\ ~cycle.shown /\ ~loading
            /\ localStorage = cycle.lsAtStart
            /\ cycle.searches = 0 /\ ~cycle.bound
            /\ txns = << >> /\ results = NoResults)
    /\ [][ConnectError =>
            UNCHANGED <<direct, scenario, store, localStorage, loading, remoteVersion, txns, results>>]_vars

\* connect has failed on a page load after one that stored records and a
\* version
C18_Witness ==
    /\ cycle.connect = "failed"
    /\ reloads = 1
    /\ store.items # << >>
    /\ localStorage # Null

\* C19: the keys of the stored records are pairwise distinct, a record
\* keeps its key as long as it is stored (a sweep deletes the records that
\* are not custom), and every record a committed addItem or a committed
\* sweep adds gets a key above every key a committed add has given before.
C19_IdsDistinctStableIncreasing ==
    /\ [](\A i, j \in 1..Len(store.items) :
            i # j => store.items[i].id # store.items[j].id)
    /\ [][\A i \in 1..Len(store.items) : \A j \in 1..Len(store'.items) :
            (store.items[i].id = store'.items[j].id
               /\ (IsCustom(store.items[i]) \/ ~SweepComplete)) =>
               store.items[i] = store'.items[j]]_vars
    /\ [][AddComplete =>
            \A j \in 1..Len(store'.items) :
               ~HasKey(store.items, store'.items[j].id) => store'.items[j].id > issued]_vars
    /\ [][SweepComplete =>
            \A j \in 1..Len(store'.items) :
               IsSeed(store'.items[j]) => store'.items[j].id > issued]_vars

\* C20: the key of every record a committed addItem or sweep adds is the
\* key generator's, whatever id the caller's object carried, and an id on
\* the caller's object never makes the add fail.
C20_IdsAssignedByStore ==
    /\ [](\A i \in 1..Len(txns) : txns[i].kind = "add" =>
            (txns[i].batch[1].id = NoId \/ ~HasKey(store.items, txns[i].batch[1].id)))
    /\ [][AddComplete =>
            \A j \in 1..Len(store'.items) :
               ~HasKey(store.items, store'.items[j].id) =>
                  store'.items[j].id = store.keyGen]_vars
    /\ [][SweepComplete =>
            \A j \in 1..Len(store'.items) :
               IsSeed(store'.items[j]) => store'.items[j].id >= store.keyGen]_vars

\* C21: updateSeedData resolves only with its post-condition (the seed
\* records of the store are the batch, every custom record is as it was),
\* and a sweep that has ended has settled: checkAndLoadData has gone on,
\* to the commit path or to the catch.
C21_SweepSettlesTruthfully ==
    /\ [][SweepComplete =>
            /\ SameContents(StoredSeeds(store'), txns[1].batch)
            /\ RecordsWhere(store.items, IsCustom) = RecordsWhere(store'.items, IsCustom)]_vars
    /\ []((cycle.sweepCalls > 0 /\ NoSweep) => outcome \in {"committed", "applyFailed"})

\* the transactions of addItem and updateSeedData calls that are live
Writers == { i \in 1..Len(txns) : txns[i].kind \in {"add", "sweep"} }

\* C23: at most one addItem or updateSeedData call is in flight at a time.
C23_AtMostOneWriter ==
    Cardinality(Writers) <= 1

\* C25: once connect has succeeded, the reconciliation ends, whatever its
\* outcome, with init calling handleSearch and bindEvents: a page whose
\* listener is not bound yet can still take a step of its startup, and a
\* reconciliation that has ended has searched and bound.
C25_StartupAlwaysGoesOn ==
    /\ outcome # "none" => (cycle.searches >= 1 /\ cycle.bound)
    /\ (cycle.connect = "ok" /\ ~cycle.bound) =>
          ENABLED (Reconcile \/ AddTxnNext \/ SearchTxnNext)

\* the places of call in the call log of this page load's startup
CallsOf(call) == { i \in 1..Len(cycle.calls) : cycle.calls[i] = call }

\* C24: a cycle that committed has called, in this order, updateSeedData,
\* localStorage.setItem, hideLoading and handleSearch: no handleSearch call
\* comes before the hideLoading call.
C24_SearchAfterEndOfRefresh ==
    outcome = "committed" =>
        /\ \A u \in CallsOf("updateSeedData"), s \in CallsOf("setItem") : u < s
        /\ \A s \in CallsOf("setItem"), h \in CallsOf("hideLoading") : s < h
        /\ CallsOf("hideLoading") # { }
        /\ \A h \in CallsOf("hideLoading"), q \in CallsOf("handleSearch") : h < q

\* C26: a record added by an addItem call whose transaction was live
\* together with that of the cycle's updateSeedData call is, once the sweep
\* has committed, in the store as the custom record it was added as, and
\* the store's seed records are the batch.
C26_RacedCustomSurvives ==
    (outcome = "committed" /\ cycle.raced # { }) =>
        /\ \A r \in cycle.raced : IsCustom(r) /\ r \in RecordsWhere(store.items, IsCustom)
        /\ SameContents(StoredSeeds(store), applied.seed)

\* an add committed behind the sweep it was called during, over a batch
\* that is not empty
C26_Witness ==
    /\ outcome = "committed"
    /\ applied.seed # << >>
    /\ \E r \in cycle.raced : r.id > HighestKey(StoredSeeds(store), 0)

\* an add called before updateSeedData and committed ahead of the sweep
C26_WitnessAhead ==
    /\ outcome = "committed"
    /\ applied.seed # << >>
    /\ \E r \in cycle.raced : r.id < HighestKey(StoredSeeds(store), 0)

\* C22: the list of a completed search, whenever its transaction was
\* created, holds the matching records of one whole seed set (the batch of
\* the last sweep that committed: the old one until the sweep under way
\* commits, the new one after) and the matching custom records; it never
\* shows a store whose old seed records are deleted and whose new ones are
\* not added yet.
C22_SearchSeesWholeSeedSet ==
    [][SearchSuccess =>
        /\ SameContents(SelectSeq(results'.items, IsSeed), WantedOf(applied.seed, results'.keyword, results'.category))
        /\ RecordsWhere(results'.items, IsCustom) = { r \in customLog : Wanted(r, results'.keyword, results'.category) }]_vars

\* a search called while the sweep ran has rendered seed records of the new
\* batch, which replaced others, and a custom record
C22_Witness ==
    /\ results.behind
    /\ outcome = "committed"
    /\ localStorage = <<"2">>
    /\ RecordsWhere(results.items, IsSeed) # { }
    /\ RecordsWhere(results.items, IsCustom) # { }
    /\ \E r \in RecordsWhere(results.items, IsSeed) : r.id > 1

\* a search called while the sweep ran has rendered the old seed records
\* after the sweep was aborted
C22_WitnessOld ==
    /\ results.behind
    /\ outcome = "applyFailed"
    /\ RecordsWhere(results.items, IsSeed) # { }

\* the records of a and b are the same in number, order, content and
\* provenance
SameRecords(a, b) ==
    /\ Len(a) = Len(b)
    /\ \A i \in 1..Len(a) : Content(a[i]) = Content(b[i]) /\ a[i].isCustom = b[i].isCustom

\* the page of the direct flow has ended its refresh, or hangs in it
DirectDone == direct.pc \in {"Running", "Hung"}

\* the page of the version-gated flow has ended its refresh, or hangs in it
GatedDone == pc = "Running" \/ SweepLost

C27_WitnessDeclined ==
    /\ DirectDone /\ GatedDone
    /\ outcome = "upToDate"
    /\ scenario.fetch = "ok"

\* both flows hang in a refresh whose transaction could not be committed
C27_WitnessHung ==
    /\ direct.pc = "Hung"
    /\ SweepLost

====
